---- MODULE Spec2Model ----
(***************************************************************************)
(* GreasedLine builder: attribute-table completion (width and color        *)
(* tables) and the create / extend protocol of CreateGreasedLine; and the   *)
(* WebXRManagedOutputCanvas, which adds its canvas to the page when an XR   *)
(* session starts and removes it when the session ends.                    *)
(*                                                                         *)
(* Tables are JavaScript arrays.  An array is modelled as a sequence; the  *)
(* 0-based read a[k] is At(a, k), which yields Undefined when k is not an  *)
(* index of the array (out of range, or not an integer).                   *)
(***************************************************************************)
EXTENDS Integers, Sequences, FiniteSets

VARIABLES
    wIn,        \* arguments of a CompleteGreasedLineWidthTable call
    wOut,       \* its outcome: returned table and the strides it evaluated
    cIn,        \* arguments of a CompleteGreasedLineColorTable call
    cOut,       \* its outcome: returned table and the strides it evaluated
    instance,   \* the GreasedLineMesh the caller holds (if any)
    call,       \* the last CreateGreasedLine call: its arguments and what it did
    xr          \* a WebXRManagedOutputCanvas, its canvas, engine and XR session

vars == <<wIn, wOut, cIn, cOut, instance, call, xr>>

(***************************************************************************)
(* Bounds of the model                                                     *)
(***************************************************************************)
MaxPointCount == 5      \* pointCount ranges over 0..MaxPointCount
MaxWidthLen == 6        \* width tables hold 0..MaxWidthLen numbers
MaxColorLen == 4        \* color tables hold 0..MaxColorLen colors
MaxLinePoints == 3      \* a line of options.points holds 1..MaxLinePoints points
MaxCalls == 2           \* CreateGreasedLine is called up to MaxCalls times
MaxSessions == 2        \* XR sessions started on one managed output canvas
MaxLayerCalls == 2      \* initializeXRLayerAsync calls on one managed output canvas

WidthValues == {1, 2}           \* widths a caller puts in a table
DefaultWidths == {1, 3}         \* values of defaultWidthUpper / defaultWidthLower
ColorValues == {1, 2}           \* colors a caller puts in a table
DefaultColors == {1, 3}         \* values of defaultColor

(***************************************************************************)
(* Enumerations                                                            *)
(***************************************************************************)
COLOR_DISTRIBUTION_NONE == 0
COLOR_DISTRIBUTION_REPEAT == 1
COLOR_DISTRIBUTION_EVEN == 2
COLOR_DISTRIBUTION_START == 3
COLOR_DISTRIBUTION_END == 4
COLOR_DISTRIBUTION_START_END == 5

WIDTH_DISTRIBUTION_NONE == 0
WIDTH_DISTRIBUTION_REPEAT == 1
WIDTH_DISTRIBUTION_EVEN == 2
WIDTH_DISTRIBUTION_START == 3
WIDTH_DISTRIBUTION_END == 4
WIDTH_DISTRIBUTION_START_END == 5

GreasedLineMeshColorDistribution ==
    { COLOR_DISTRIBUTION_NONE, COLOR_DISTRIBUTION_REPEAT, COLOR_DISTRIBUTION_EVEN,
      COLOR_DISTRIBUTION_START, COLOR_DISTRIBUTION_END, COLOR_DISTRIBUTION_START_END }

GreasedLineMeshWidthDistribution ==
    { WIDTH_DISTRIBUTION_NONE, WIDTH_DISTRIBUTION_REPEAT, WIDTH_DISTRIBUTION_EVEN,
      WIDTH_DISTRIBUTION_START, WIDTH_DISTRIBUTION_END, WIDTH_DISTRIBUTION_START_END }

(***************************************************************************)
(* JavaScript array primitives                                             *)
(***************************************************************************)
\* The value of an array read that hits no element.
Undefined == -1

\* a[k] for an integer k.
At(a, k) == IF k >= 0 /\ k < Len(a) THEN a[k + 1] ELSE Undefined

\* a[n / d] for the quotient of two integers, d > 0: a non-integer index
\* names no element.
AtQuotient(a, n, d) == IF n % d = 0 THEN At(a, n \div d) ELSE Undefined

\* Variant of SliceTo: the copy is not cut at n.
SliceToWhole(a, n) == a

\* a.slice(0, n) for n >= 0.
SliceTo(a, n) == SubSeq(a, 1, IF n < Len(a) THEN n ELSE Len(a))

\* The number of iterations of `for (i = 0; i < n2 / 2; i++)`, n2 an integer:
\* the loop bound may be a half-integer.
HalfLoopCount(n2) == IF n2 <= 0 THEN 0 ELSE (n2 + 1) \div 2

\* The number of iterations of `for (i = 0; i < n; i++)`.
LoopCount(n) == IF n > 0 THEN n ELSE 0

\* A loop that pushes two entries per iteration fills slot m (1-based) in
\* iteration Iter2(m); First(m) tells the first push of that iteration.
Iter2(m) == (m - 1) \div 2

First(m) == m % 2 = 1

Tables(values, maxLen) == UNION { [1..n -> values] : n \in 0..maxLen }

(***************************************************************************)
(* CompleteGreasedLineWidthTable                                           *)
(*                                                                         *)
(* missingCount = pointCount - widths.length / 2 may be a half-integer;    *)
(* the model carries 2 * missingCount.                                     *)
(***************************************************************************)
WidthMissingCount2(pointCount, widths) == 2 * pointCount - Len(widths)

\* WIDTH_DISTRIBUTION_START_END: start sector, middle sector, end sector.
WidthStartEnd(pointCount, widths) ==
    LET halfCount == Len(widths) \div 2
        startSector ==
            [m \in 1..(2 * LoopCount(halfCount - 1)) |-> At(widths, m - 1)]
        widthL == AtQuotient(widths, halfCount, 2)
        widthU == AtQuotient(widths, halfCount + 2, 2)
        middleSector ==
            [m \in 1..(2 * HalfLoopCount(WidthMissingCount2(pointCount, widths))) |->
                IF First(m) THEN widthU ELSE widthL]
        endSector ==
            [m \in 1..(2 * HalfLoopCount(Len(widths) - halfCount)) |->
                At(widths, halfCount + m - 1)]
    IN  startSector \o middleSector \o endSector

\* The copy loop `for (i = 0; i < widths.length; i += 2)` of START and END.
WidthCopyPairs(widths) ==
    [m \in 1..(2 * HalfLoopCount(Len(widths))) |-> At(widths, m - 1)]

\* The fill loop `for (i = 0; i < missingCount; i++)` of START and END.
WidthDefaultPairs(pointCount, widths, defaultWidthUpper, defaultWidthLower) ==
    [m \in 1..(2 * HalfLoopCount(WidthMissingCount2(pointCount, widths))) |->
        IF First(m) THEN defaultWidthUpper ELSE defaultWidthLower]

\* Variant of WidthStart: the fill loop stops one pair early.
WidthStartShortFill(pointCount, widths, defaultWidthUpper, defaultWidthLower) ==
    WidthCopyPairs(widths)
        \o [m \in 1..(2 * HalfLoopCount(WidthMissingCount2(pointCount, widths) - 2)) |->
                IF First(m) THEN defaultWidthUpper ELSE defaultWidthLower]

\* WIDTH_DISTRIBUTION_START
WidthStart(pointCount, widths, defaultWidthUpper, defaultWidthLower) ==
    WidthCopyPairs(widths)
        \o WidthDefaultPairs(pointCount, widths, defaultWidthUpper, defaultWidthLower)

\* WIDTH_DISTRIBUTION_END
WidthEnd(pointCount, widths, defaultWidthUpper, defaultWidthLower) ==
    WidthDefaultPairs(pointCount, widths, defaultWidthUpper, defaultWidthLower)
        \o WidthCopyPairs(widths)

\* WIDTH_DISTRIBUTION_REPEAT: the loop from iteration x on, read index i.
RECURSIVE WidthRepeatFrom(_, _, _, _)
WidthRepeatFrom(x, i, pointCount, widths) ==
    IF x >= pointCount THEN <<>>
    ELSE <<At(widths, i), At(widths, i + 1)>>
            \o WidthRepeatFrom(x + 1, IF i + 2 = Len(widths) THEN 0 ELSE i + 2,
                               pointCount, widths)

WidthRepeat(pointCount, widths) == WidthRepeatFrom(0, 0, pointCount, widths)

\* widthsectorLength = widths.length / ((pointCount - 1) * 2), kept as
\* <<dividend, divisor>>: with divisor 0 the quotient is Infinity or NaN.
WidthSectorLength(pointCount, widths) == <<Len(widths), (pointCount - 1) * 2>>

\* Math.floor(j) after x additions of the stride to j = 0.  With a zero
\* divisor j is Infinity or NaN after the first addition, which indexes
\* nothing.  (For a finite stride the quotient is exact here; the double sum
\* agrees with it for every pointCount <= 6.)
StrideIndex(x, stride) ==
    IF x = 0 THEN 0
    ELSE IF stride[2] = 0 THEN Undefined
    ELSE (x * stride[1]) \div stride[2]

\* WIDTH_DISTRIBUTION_EVEN
WidthEven(pointCount, widths) ==
    [m \in 1..(2 * LoopCount(pointCount)) |->
        LET i == StrideIndex(Iter2(m), WidthSectorLength(pointCount, widths))
        IN  IF First(m) THEN At(widths, i) ELSE At(widths, i + 1)]

CompleteGreasedLineWidthTable(pointCount, widths, widthsDistribution, defaultWidthUpper, defaultWidthLower) ==
    IF WidthMissingCount2(pointCount, widths) < 0
    THEN SliceTo(widths, pointCount * 2)
    ELSE IF WidthMissingCount2(pointCount, widths) > 0
    THEN CASE widthsDistribution = WIDTH_DISTRIBUTION_START_END ->
                WidthStartEnd(pointCount, widths)
           [] widthsDistribution = WIDTH_DISTRIBUTION_START ->
                WidthStart(pointCount, widths, defaultWidthUpper, defaultWidthLower)
           [] widthsDistribution = WIDTH_DISTRIBUTION_END ->
                WidthEnd(pointCount, widths, defaultWidthUpper, defaultWidthLower)
           [] widthsDistribution = WIDTH_DISTRIBUTION_REPEAT ->
                WidthRepeat(pointCount, widths)
           [] widthsDistribution = WIDTH_DISTRIBUTION_EVEN ->
                WidthEven(pointCount, widths)
           [] OTHER -> <<>>
    ELSE [m \in 1..Len(widths) |-> At(widths, m - 1)]

\* The strides a call evaluates (none outside the EVEN branch).
WidthStrides(pointCount, widths, widthsDistribution) ==
    IF WidthMissingCount2(pointCount, widths) > 0
       /\ widthsDistribution = WIDTH_DISTRIBUTION_EVEN
    THEN <<WidthSectorLength(pointCount, widths)>>
    ELSE <<>>


(***************************************************************************)
(* CompleteGreasedLineColorTable                                           *)
(***************************************************************************)
ColorMissingCount(pointCount, colors) == pointCount - Len(colors)

\* COLOR_DISTRIBUTION_START_END: start sector, middle sector, end sector.
ColorStartEnd(pointCount, colors, defaultColor) ==
    LET halfCount == Len(colors) \div 2
        startSector == [m \in 1..halfCount |-> At(colors, m - 1)]
        middleSector ==
            [m \in 1..LoopCount(ColorMissingCount(pointCount, colors) - 1) |->
                defaultColor]
        endSector ==
            [m \in 1..(Len(colors) - halfCount) |-> At(colors, halfCount + m - 1)]
    IN  startSector \o middleSector \o endSector

\* COLOR_DISTRIBUTION_START
ColorStart(pointCount, colors, defaultColor) ==
    [m \in 1..Len(colors) |-> At(colors, m - 1)]
        \o [m \in 1..LoopCount(ColorMissingCount(pointCount, colors)) |-> defaultColor]

\* COLOR_DISTRIBUTION_END
ColorEnd(pointCount, colors, defaultColor) ==
    [m \in 1..LoopCount(ColorMissingCount(pointCount, colors) - 1) |-> defaultColor]
        \o [m \in 1..Len(colors) |-> At(colors, m - 1)]

\* COLOR_DISTRIBUTION_REPEAT: the loop from iteration x on, read index i.
RECURSIVE ColorRepeatFrom(_, _, _, _)
ColorRepeatFrom(x, i, pointCount, colors) ==
    IF x >= pointCount THEN <<>>
    ELSE <<At(colors, i)>>
            \o ColorRepeatFrom(x + 1, IF i + 1 = Len(colors) THEN 0 ELSE i + 1,
                               pointCount, colors)

\* Variant of ColorRepeat: the read index is never reset to 0.
ColorRepeatNoWrap(pointCount, colors) ==
    [m \in 1..LoopCount(pointCount) |-> At(colors, m - 1)]

ColorRepeat(pointCount, colors) == ColorRepeatFrom(0, 0, pointCount, colors)

\* colorSectorLength = colors.length / (pointCount - 1), as <<dividend, divisor>>.
ColorSectorLength(pointCount, colors) == <<Len(colors), pointCount - 1>>

\* COLOR_DISTRIBUTION_EVEN
ColorEven(pointCount, colors) ==
    [m \in 1..LoopCount(pointCount - 1) |->
        At(colors, StrideIndex(m - 1, ColorSectorLength(pointCount, colors)))]

CompleteGreasedLineColorTable(pointCount, colors, colorDistribution, defaultColor) ==
    IF ColorMissingCount(pointCount, colors) < 0
    THEN SliceTo(colors, pointCount)
    ELSE IF ColorMissingCount(pointCount, colors) > 0
    THEN CASE colorDistribution = COLOR_DISTRIBUTION_START_END ->
                ColorStartEnd(pointCount, colors, defaultColor)
           [] colorDistribution = COLOR_DISTRIBUTION_START ->
                ColorStart(pointCount, colors, defaultColor)
           [] colorDistribution = COLOR_DISTRIBUTION_END ->
                ColorEnd(pointCount, colors, defaultColor)
           [] colorDistribution = COLOR_DISTRIBUTION_REPEAT ->
                ColorRepeat(pointCount, colors)
           [] colorDistribution = COLOR_DISTRIBUTION_EVEN ->
                ColorEven(pointCount, colors)
           [] colorDistribution = COLOR_DISTRIBUTION_NONE ->
                [m \in 1..Len(colors) |-> At(colors, m - 1)]
           [] OTHER -> <<>>
    ELSE [m \in 1..pointCount |-> At(colors, m - 1)]

\* The strides a call evaluates (none outside the EVEN branch).
ColorStrides(pointCount, colors, colorDistribution) ==
    IF ColorMissingCount(pointCount, colors) > 0
       /\ colorDistribution = COLOR_DISTRIBUTION_EVEN
    THEN <<ColorSectorLength(pointCount, colors)>>
    ELSE <<>>

(***************************************************************************)
(* CreateGreasedLine                                                       *)
(*                                                                         *)
(* An optional table is [defined, table]; an optional enum value or color  *)
(* is the value or Undefined; an optional boolean is "undefined", "true"   *)
(* or "false".  options.points is the sequence of its lines, each given by *)
(* its number of points.                                                   *)
(***************************************************************************)
NoTable == [defined |-> FALSE, table |-> <<>>]

SomeTable(t) == [defined |-> TRUE, table |-> t]

\* GreasedLinePluginMaterial.DEFAULT_COLOR
DEFAULT_COLOR == 9

\* GreasedLineMesh.ConvertPoints: one number[] of 3 coordinates per point for
\* each line (here: its length).
ConvertPoints(points) == [l \in 1..Len(points) |-> 3 * points[l]]

RECURSIVE SumLengths(_)
SumLengths(allPoints) ==
    IF allPoints = <<>> THEN 0
    ELSE allPoints[1] + SumLengths(Tail(allPoints))

\* let length = 0; if (Array.isArray(allPoints[0])) allPoints.forEach(length += points.length / 3)
PointsLength(allPoints) ==
    IF Len(allPoints) = 0 THEN 0 ELSE SumLengths(allPoints) \div 3

\* options.widthDistribution ?? WIDTH_DISTRIBUTION_START
WidthDistributionOf(args) ==
    IF args.widthDistribution = Undefined THEN WIDTH_DISTRIBUTION_START
    ELSE args.widthDistribution

\* materialOptions.colorDistribution ?? COLOR_DISTRIBUTION_START
ColorDistributionOf(args) ==
    IF args.colorDistribution = Undefined THEN COLOR_DISTRIBUTION_START
    ELSE args.colorDistribution

\* materialOptions.color: { color: DEFAULT_COLOR } stands in for omitted
\* materialOptions, and materialOptions.color ?? DEFAULT_COLOR is the fill.
ColorOf(args) ==
    IF ~args.materialOptions \/ args.color = Undefined THEN DEFAULT_COLOR
    ELSE args.color

\* Variant of CreateAndAssignMaterialOf: an omitted flag counts as false.
CreateAndAssignMaterialIfSet(args) == args.createAndAssignMaterial = "true"

\* materialOptions.createAndAssignMaterial ?? true
CreateAndAssignMaterialOf(args) == args.createAndAssignMaterial # "false"

\* const widths = CompleteGreasedLineWidthTable(length, options.widths ?? [], options.widthDistribution)
WidthsOf(args) ==
    CompleteGreasedLineWidthTable(PointsLength(ConvertPoints(args.points)),
                                  IF args.widths.defined THEN args.widths.table ELSE <<>>,
                                  WidthDistributionOf(args), 1, 1)

\* const colors = materialOptions?.colors ? CompleteGreasedLineColorTable(...) : undefined
ColorsOf(args) ==
    IF args.colors.defined
    THEN SomeTable(CompleteGreasedLineColorTable(
                       PointsLength(ConvertPoints(args.points)), args.colors.table,
                       ColorDistributionOf(args), ColorOf(args)))
    ELSE NoTable

NoInstance ==
    [exists |-> FALSE, points |-> <<>>, widths |-> NoTable, lazy |-> FALSE,
     material |-> "none", greasedLineMaterial |-> FALSE, colors |-> NoTable]

\* new GreasedLineMesh(name, scene, { points, updatable, widths, lazy })
NewGreasedLineMesh(allPoints, widths, lazy) ==
    [exists |-> TRUE, points |-> allPoints, widths |-> SomeTable(widths),
     lazy |-> (lazy = "true"),
     material |-> "none", greasedLineMaterial |-> FALSE, colors |-> NoTable]

\* new PBRMaterial / new StandardMaterial, new GreasedLinePluginMaterial(material,
\* scene, initialMaterialOptions), instance.material = material
AssignNewMaterial(mesh, materialType, colors) ==
    [mesh EXCEPT !.material = IF materialType = "PBR" THEN "PBRMaterial"
                              ELSE "StandardMaterial",
                 !.greasedLineMaterial = TRUE,
                 !.colors = colors]

\* instance.addPoints(allPoints)
AddPoints(mesh, allPoints) == [mesh EXCEPT !.points = mesh.points \o allPoints]

\* greasedLineMaterial.setColors(newColors, lazy)
SetColors(mesh, newColors, lazy) == [mesh EXCEPT !.colors = SomeTable(newColors)]

\* The branch `if (!options.instance)`: the created mesh.
CreatedMesh(args, allPoints, widths, colors) ==
    IF CreateAndAssignMaterialOf(args)
    THEN AssignNewMaterial(NewGreasedLineMesh(allPoints, widths, args.lazy),
                           args.materialType, colors)
    ELSE NewGreasedLineMesh(allPoints, widths, args.lazy)

\* Variant of ExtendedMesh: the new widths replace the instance's table.
ExtendedMeshOverwrite(mesh, allPoints, widths) ==
    AddPoints([mesh EXCEPT !.widths = SomeTable(widths)], allPoints)

\* The branch `else`: the instance with the new widths and points.
ExtendedMesh(mesh, allPoints, widths) ==
    AddPoints([mesh EXCEPT !.widths =
                    IF mesh.widths.defined
                    THEN SomeTable(mesh.widths.table \o widths)
                    ELSE SomeTable(widths)],
              allPoints)

\* Variant of MergesColors: the kind of the material is not looked at.
MergesColorsAnyMaterial(mesh, args, colors) ==
    /\ colors.defined
    /\ args.instance
    /\ mesh.greasedLineMaterial
    /\ mesh.colors.defined

\* The guards of the `add colors` block.
MergesColors(mesh, args, colors) ==
    /\ colors.defined
    /\ args.instance
    /\ mesh.material \in {"StandardMaterial", "PBRMaterial"}
    /\ mesh.greasedLineMaterial
    /\ mesh.colors.defined

\* The setColors calls of one CreateGreasedLine call on `mesh`.
SetColorsCalls(mesh, args, colors) ==
    IF MergesColors(mesh, args, colors)
    THEN <<[colors |-> mesh.colors.table \o colors.table, lazy |-> mesh.lazy]>>
    ELSE <<>>

\* Variant of WithMergedColors: the new colors replace the plugin's table.
WithReplacedColors(mesh, args, colors) ==
    IF MergesColors(mesh, args, colors)
    THEN SetColors(mesh, colors.table, mesh.lazy)
    ELSE mesh

\* The `add colors` block.
WithMergedColors(mesh, args, colors) ==
    IF MergesColors(mesh, args, colors)
    THEN SetColors(mesh, mesh.colors.table \o colors.table, mesh.lazy)
    ELSE mesh

\* No call made yet.
NoCall ==
    [number |-> 0,
     args |-> [instance |-> FALSE, points |-> <<>>, widths |-> NoTable,
               widthDistribution |-> Undefined, lazy |-> "undefined",
               materialOptions |-> FALSE, colors |-> NoTable,
               colorDistribution |-> Undefined, color |-> Undefined,
               createAndAssignMaterial |-> "undefined", materialType |-> "undefined"],
     length |-> 0, widths |-> <<>>, colors |-> NoTable,
     addPoints |-> <<>>, setColors |-> <<>>, materialsCreated |-> 0,
     origin |-> "elsewhere"]

\* Where the mesh the caller holds after a call comes from: made by this
\* function ("created"; "createdWithColors" when the call had a color table,
\* the default color distribution and made the material), or not.
OriginAfter(args) ==
    IF args.instance THEN call.origin
    ELSE IF args.colors.defined /\ CreateAndAssignMaterialOf(args)
            /\ ColorDistributionOf(args) = COLOR_DISTRIBUTION_START
    THEN "createdWithColors"
    ELSE "created"

\* One call.  `call` records its arguments, the locals `length`, `widths` and
\* `colors`, the calls it made on the instance and on the material plugin, and
\* where the returned mesh comes from.
CreateGreasedLine(args) ==
    LET allPoints == ConvertPoints(args.points)
        widths == WidthsOf(args)
        colors == ColorsOf(args)
    IN  /\ call.number < MaxCalls
        /\ args.instance = instance.exists
        /\ instance' = IF args.instance
                       THEN WithMergedColors(ExtendedMesh(instance, allPoints, widths),
                                             args, colors)
                       ELSE CreatedMesh(args, allPoints, widths, colors)
        /\ call' = [number |-> call.number + 1,
                    args |-> args,
                    length |-> PointsLength(allPoints),
                    widths |-> widths,
                    colors |-> colors,
                    addPoints |-> IF args.instance THEN <<allPoints>> ELSE <<>>,
                    setColors |-> SetColorsCalls(instance, args, colors),
                    materialsCreated |->
                        IF ~args.instance /\ CreateAndAssignMaterialOf(args)
                        THEN 1 ELSE 0,
                    origin |-> OriginAfter(args)]
        /\ UNCHANGED <<wIn, wOut, cIn, cOut, xr>>

(***************************************************************************)
(* WebXRManagedOutputCanvas.  `xr` holds the fields of the object          *)
(* (_canvas, _engine, canvasContext, xrLayer, _originalCanvasSize, the     *)
(* observers added once to onXRLayerInitObservable) together with what the *)
(* object acts on: the page (inBody: document.body contains the canvas;    *)
(* canvasSize: the canvas's style width and height), the engine            *)
(* (isRenderingCanvas: the canvas is engine.getRenderingCanvas();          *)
(* engineSize), the platform (useLayersAPI, hasMakeXRCompatible), the XR   *)
(* session (inXR, sessions) and the initializeXRLayerAsync call in hand    *)
(* (promise, compatible, framebuffer, warned, created).                    *)
(***************************************************************************)
\* _setCanvasSize(init, xrLayer)
_setCanvasSize(s, init, layer) ==
    IF s._canvas = "null" \/ s._engine = "null" THEN s
    ELSE IF init
    THEN IF layer # "null"
         THEN IF ~s.isRenderingCanvas
              THEN [s EXCEPT !.canvasSize = "layer"]
              ELSE [s EXCEPT !.engineSize = "layer"]
         ELSE s
    ELSE IF s._originalCanvasSize
         THEN IF ~s.isRenderingCanvas
              THEN [s EXCEPT !.canvasSize = "original"]
              ELSE [s EXCEPT !.engineSize = "original"]
         ELSE s

\* Variant of _removeCanvas: the canvas is removed whether or not the engine
\* is still there.
_removeCanvasWithoutEngine(s) ==
    _setCanvasSize(IF s._canvas # "null" /\ s.inBody /\ ~s.isRenderingCanvas
                   THEN [s EXCEPT !.inBody = FALSE]
                   ELSE s,
                   FALSE, s.xrLayer)

\* _removeCanvas()
_removeCanvas(s) ==
    _setCanvasSize(IF s._canvas # "null" /\ s._engine # "null" /\ s.inBody
                      /\ ~s.isRenderingCanvas
                   THEN [s EXCEPT !.inBody = FALSE]
                   ELSE s,
                   FALSE, s.xrLayer)

\* _addCanvas()
_addCanvas(s) ==
    LET added == IF s._canvas # "null" /\ s._engine # "null" /\ ~s.isRenderingCanvas
                 THEN [s EXCEPT !.inBody = TRUE]
                 ELSE s
    IN  IF added.xrLayer # "null"
        THEN _setCanvasSize(added, TRUE, added.xrLayer)
        ELSE [added EXCEPT !.observers = @ + 1]

\* _setManagedOutputCanvas(canvas)
_setManagedOutputCanvas(s, canvas) ==
    LET removed == _removeCanvas(s)
    IN  IF canvas = "null"
        THEN [removed EXCEPT !._canvas = "null", !.canvasContext = "null"]
        ELSE [removed EXCEPT !._originalCanvasSize = TRUE,
                             !._canvas = canvas,
                             !.canvasContext = "gl"]

\* The object before the constructor body runs, for a canvas that is or is not
\* the engine's rendering canvas and is or is not in the page.
FieldInitializers(isRenderingCanvas, inBody, useLayersAPI, hasMakeXRCompatible) ==
    [_canvas |-> "null", _engine |-> "null", canvasContext |-> "null",
     xrLayer |-> "null", _originalCanvasSize |-> FALSE, observers |-> 0,
     isRenderingCanvas |-> isRenderingCanvas, inBody |-> inBody,
     canvasSize |-> "css", engineSize |-> "initial",
     useLayersAPI |-> useLayersAPI, hasMakeXRCompatible |-> hasMakeXRCompatible,
     inXR |-> FALSE, sessions |-> 0, layerCalls |-> 0,
     promise |-> "none", compatible |-> "none", framebuffer |-> "none",
     warned |-> FALSE, created |-> FALSE, event |-> "constructor"]

\* constructor(_xrSessionManager, _options)
Constructor(isRenderingCanvas, inBody, useLayersAPI, hasMakeXRCompatible) ==
    _setManagedOutputCanvas(
        [FieldInitializers(isRenderingCanvas, inBody, useLayersAPI, hasMakeXRCompatible)
            EXCEPT !._engine = "engine"],
        "canvas")

\* The objects after construction: without _options.canvasElement the canvas
\* is new (not in the page, not the rendering canvas); a canvas handed in may
\* be in the page and may be the engine's rendering canvas.
ManagedOutputCanvases ==
    { Constructor(r, b, l, m) :
        r \in BOOLEAN, b \in BOOLEAN, l \in BOOLEAN, m \in BOOLEAN }

\* The object the other specifications leave alone.
IdleManagedOutputCanvas == Constructor(FALSE, FALSE, FALSE, TRUE)

\* onXRLayerInitObservable.notifyObservers(wrapper): the observers added once
\* by _addCanvas run and are dropped.
NotifyObservers(s, wrapper) ==
    IF s.observers > 0
    THEN [_setCanvasSize(s, TRUE, wrapper) EXCEPT !.observers = 0]
    ELSE s

\* Variant of createLayer: a null framebuffer is passed on to the wrapper.
createLayerUnchecked(s, xrFramebuffer) ==
    IF s.canvasContext = "null"
    THEN [threw |-> TRUE, wrapper |-> "null", state |-> s]
    ELSE IF s.useLayersAPI
    THEN [threw |-> FALSE, wrapper |-> "layer",
          state |-> [s EXCEPT !.framebuffer = xrFramebuffer]]
    ELSE [threw |-> FALSE, wrapper |-> "layer", state |-> NotifyObservers(s, "layer")]

\* createLayer(): reading createFramebuffer of a null canvasContext, or
\* handing a null context to XRWebGLLayer, throws a TypeError; xrFramebuffer
\* is what createFramebuffer() returns.
createLayer(s, xrFramebuffer) ==
    IF s.canvasContext = "null"
    THEN [threw |-> TRUE, wrapper |-> "null", state |-> s]
    ELSE IF s.useLayersAPI
    THEN IF xrFramebuffer = "null"
         THEN [threw |-> TRUE, wrapper |-> "null",
               state |-> [s EXCEPT !.framebuffer = "null"]]
         ELSE [threw |-> FALSE, wrapper |-> "layer",
               state |-> [s EXCEPT !.framebuffer = xrFramebuffer]]
    ELSE [threw |-> FALSE, wrapper |-> "layer", state |-> NotifyObservers(s, "layer")]

\* this.xrLayer = createLayer(), and how the call or its promise ends:
\* `failed` is "threw" in the synchronous path and "rejected" in a then().
AssignLayer(s, xrFramebuffer, failed) ==
    LET r == createLayer(s, xrFramebuffer)
    IN  IF r.threw
        THEN [r.state EXCEPT !.promise = failed]
        ELSE [r.state EXCEPT !.xrLayer = r.wrapper, !.created = TRUE,
                             !.promise = "resolved"]

\* _xrSessionManager.onXRSessionInit notifies: _addCanvas()
XRSessionInit ==
    /\ ~xr.inXR
    /\ xr.sessions < MaxSessions
    /\ xr' = [_addCanvas(xr) EXCEPT !.inXR = TRUE, !.sessions = @ + 1,
                                    !.event = "sessionInit"]
    /\ UNCHANGED <<wIn, wOut, cIn, cOut, instance, call>>

\* _xrSessionManager.onXRSessionEnded notifies: _removeCanvas()
XRSessionEnded ==
    /\ xr.inXR
    /\ xr' = [_removeCanvas(xr) EXCEPT !.inXR = FALSE, !.event = "sessionEnded"]
    /\ UNCHANGED <<wIn, wOut, cIn, cOut, instance, call>>

\* _engine.onDisposeObservable notifies (once): this._engine = null
EngineDispose ==
    /\ xr._engine # "null"
    /\ xr' = [xr EXCEPT !._engine = "null", !.event = "engineDispose"]
    /\ UNCHANGED <<wIn, wOut, cIn, cOut, instance, call>>

\* dispose()
Dispose ==
    /\ xr' = [_setManagedOutputCanvas(_removeCanvas(xr), "null")
                EXCEPT !.event = "dispose"]
    /\ UNCHANGED <<wIn, wOut, cIn, cOut, instance, call>>

\* initializeXRLayerAsync(xrSession) up to its return: reading
\* makeXRCompatible of a null canvasContext throws; without makeXRCompatible
\* the layer is created at once; otherwise makeXRCompatible() is in flight.
InitializeXRLayerAsync ==
    /\ xr.inXR
    /\ xr.layerCalls < MaxLayerCalls
    /\ xr.promise \notin {"pending", "settled"}
    /\ \E xrFramebuffer \in {"framebuffer", "null"} :
         LET s == [xr EXCEPT !.layerCalls = @ + 1, !.compatible = "none",
                             !.framebuffer = "none", !.warned = FALSE,
                             !.created = FALSE, !.event = "initializeXRLayerAsync"]
         IN  xr' = IF s.canvasContext = "null"
                   THEN [s EXCEPT !.promise = "threw"]
                   ELSE IF ~s.hasMakeXRCompatible
                   THEN AssignLayer(s, xrFramebuffer, "threw")
                   ELSE [s EXCEPT !.promise = "pending"]
    /\ UNCHANGED <<wIn, wOut, cIn, cOut, instance, call>>

\* makeXRCompatible() fulfils: () => { }
MakeXRCompatibleFulfilled ==
    /\ xr.promise = "pending"
    /\ xr' = [xr EXCEPT !.promise = "settled", !.compatible = "fulfilled",
                        !.event = "makeXRCompatible"]
    /\ UNCHANGED <<wIn, wOut, cIn, cOut, instance, call>>

\* makeXRCompatible() rejects: Tools.Warn(...)
MakeXRCompatibleRejected ==
    /\ xr.promise = "pending"
    /\ xr' = [xr EXCEPT !.promise = "settled", !.compatible = "rejected",
                        !.warned = TRUE, !.event = "makeXRCompatible"]
    /\ UNCHANGED <<wIn, wOut, cIn, cOut, instance, call>>

\* The second then(): this.xrLayer = createLayer(); return this.xrLayer
CreateLayerThen ==
    /\ xr.promise = "settled"
    /\ \E xrFramebuffer \in {"framebuffer", "null"} :
         xr' = [AssignLayer(xr, xrFramebuffer, "rejected") EXCEPT !.event = "createLayer"]
    /\ UNCHANGED <<wIn, wOut, cIn, cOut, instance, call>>

(***************************************************************************)
(* The two completion functions called on their own: the arguments are     *)
(* drawn at the start, the call stores what it returns.                    *)
(***************************************************************************)
NotCalled == [called |-> FALSE, table |-> <<>>, strides |-> <<>>]

WidthInputs ==
    [pointCount : 0..MaxPointCount,
     widths : Tables(WidthValues, MaxWidthLen),
     widthsDistribution : GreasedLineMeshWidthDistribution,
     defaultWidthUpper : DefaultWidths,
     defaultWidthLower : DefaultWidths]

ColorInputs ==
    [pointCount : 0..MaxPointCount,
     colors : Tables(ColorValues, MaxColorLen),
     colorDistribution : GreasedLineMeshColorDistribution,
     defaultColor : DefaultColors]

\* A few fixed argument tuples: a table longer than needed, and an empty one.
WidthSamples ==
    { [pointCount |-> 1, widths |-> <<1, 2, 2, 1>>,
       widthsDistribution |-> WIDTH_DISTRIBUTION_NONE,
       defaultWidthUpper |-> 1, defaultWidthLower |-> 1],
      [pointCount |-> 0, widths |-> <<>>,
       widthsDistribution |-> WIDTH_DISTRIBUTION_START,
       defaultWidthUpper |-> 1, defaultWidthLower |-> 1] }

ColorSamples ==
    { [pointCount |-> 1, colors |-> <<1, 2>>,
       colorDistribution |-> COLOR_DISTRIBUTION_NONE, defaultColor |-> 1],
      [pointCount |-> 0, colors |-> <<>>,
       colorDistribution |-> COLOR_DISTRIBUTION_START, defaultColor |-> 1] }

CallCompleteGreasedLineWidthTable ==
    /\ ~wOut.called
    /\ wOut' = [called |-> TRUE,
                table |-> CompleteGreasedLineWidthTable(
                              wIn.pointCount, wIn.widths, wIn.widthsDistribution,
                              wIn.defaultWidthUpper, wIn.defaultWidthLower),
                strides |-> WidthStrides(wIn.pointCount, wIn.widths,
                                         wIn.widthsDistribution)]
    /\ UNCHANGED <<wIn, cIn, cOut, instance, call, xr>>

CallCompleteGreasedLineColorTable ==
    /\ ~cOut.called
    /\ cOut' = [called |-> TRUE,
                table |-> CompleteGreasedLineColorTable(
                              cIn.pointCount, cIn.colors, cIn.colorDistribution,
                              cIn.defaultColor),
                strides |-> ColorStrides(cIn.pointCount, cIn.colors,
                                         cIn.colorDistribution)]
    /\ UNCHANGED <<wIn, wOut, cIn, instance, call, xr>>

\* One argument tuple ranges over all bounded inputs, the other over the samples.
InitTables ==
    /\ \/ wIn \in WidthInputs /\ cIn \in ColorSamples
       \/ wIn \in WidthSamples /\ cIn \in ColorInputs
    /\ wOut = NotCalled
    /\ cOut = NotCalled
    /\ instance = NoInstance
    /\ call = NoCall
    /\ xr = IdleManagedOutputCanvas

NextTables ==
    \/ CallCompleteGreasedLineWidthTable
    \/ CallCompleteGreasedLineColorTable

SpecTables == InitTables /\ [][NextTables]_vars

(***************************************************************************)
(* The builder: a caller holding at most one mesh calls CreateGreasedLine, *)
(* without an instance (create) or with the mesh it holds (extend).        *)
(***************************************************************************)
\* options.points: no line, one line (short or long), or two lines.
PointBatches == { <<>>, <<1>>, <<MaxLinePoints>>, <<1, MaxLinePoints>> }

\* Width tables handed to the builder: none, one pair, three pairs.
BuilderWidthTables == { NoTable, SomeTable(<<1, 2>>), SomeTable(<<1, 2, 2, 1, 2, 2>>) }

\* Color tables handed to the builder.
BuilderColorTables == { SomeTable(<<2>>), SomeTable(<<1, 2>>) }

\* Calls that vary the points, the width table and the width distribution.
WidthArgs ==
    [instance : BOOLEAN,
     points : PointBatches,
     widths : BuilderWidthTables,
     widthDistribution :
        {Undefined, WIDTH_DISTRIBUTION_REPEAT, WIDTH_DISTRIBUTION_START_END},
     lazy : {"undefined"},
     materialOptions : {FALSE},
     colors : {NoTable},
     colorDistribution : {Undefined},
     color : {Undefined},
     createAndAssignMaterial : {"undefined"},
     materialType : {"undefined"}]

\* Calls that vary the points, the color table and the color distribution.
ColorArgs ==
    [instance : BOOLEAN,
     points : PointBatches,
     widths : {NoTable},
     widthDistribution : {Undefined},
     lazy : {"undefined"},
     materialOptions : {TRUE},
     colors : BuilderColorTables,
     colorDistribution : {Undefined, COLOR_DISTRIBUTION_REPEAT},
     color : {Undefined, 3},
     createAndAssignMaterial : {"undefined"},
     materialType : {"undefined"}]

\* Calls that vary the material options, the fill color and the lazy flag.
MaterialArgs ==
    [instance : BOOLEAN,
     points : { <<1>> },
     widths : {NoTable},
     widthDistribution : {Undefined},
     lazy : {"undefined", "true"},
     materialOptions : {TRUE},
     colors : {NoTable, SomeTable(<<>>)},
     colorDistribution : {Undefined},
     color : {Undefined},
     createAndAssignMaterial : {"undefined", "true", "false"},
     materialType : {"undefined", "PBR"}]

BuilderArgs == WidthArgs \cup ColorArgs \cup MaterialArgs

\* A mesh the caller has built and set up itself: one point.
ExternalMesh(widths, lazy, material, greasedLineMaterial, colors) ==
    [exists |-> TRUE, points |-> <<3>>, widths |-> widths, lazy |-> lazy,
     material |-> material, greasedLineMaterial |-> greasedLineMaterial,
     colors |-> colors]

\* Such meshes: without width table or material; with a material of each kind,
\* with and without a material plugin, with and without a color table.
ExternalMeshes ==
    { ExternalMesh(NoTable, FALSE, "none", FALSE, NoTable),
      ExternalMesh(SomeTable(<<2, 1>>), FALSE, "StandardMaterial", FALSE, NoTable),
      ExternalMesh(SomeTable(<<2, 1>>), FALSE, "StandardMaterial", TRUE, NoTable),
      ExternalMesh(SomeTable(<<2, 1>>), TRUE, "StandardMaterial", TRUE, SomeTable(<<1>>)),
      ExternalMesh(SomeTable(<<2, 1>>), FALSE, "PBRMaterial", TRUE, SomeTable(<<>>)),
      ExternalMesh(SomeTable(<<2, 1>>), TRUE, "GreasedLineSimpleMaterial", TRUE,
                   SomeTable(<<1>>)) }

Init ==
    /\ instance \in {NoInstance} \cup ExternalMeshes
    /\ call = NoCall
    /\ wIn \in WidthSamples /\ wIn.pointCount = 0
    /\ cIn \in ColorSamples /\ cIn.pointCount = 0
    /\ wOut = NotCalled
    /\ cOut = NotCalled
    /\ xr = IdleManagedOutputCanvas

\* A call without options.instance.
Create == \E args \in BuilderArgs : ~args.instance /\ CreateGreasedLine(args)

\* A call with options.instance: the mesh the caller holds.
Extend == \E args \in BuilderArgs : args.instance /\ CreateGreasedLine(args)

Next == Create \/ Extend

Spec == Init /\ [][Next]_vars

(***************************************************************************)
(* The managed output canvas under the events of its session manager, its  *)
(* engine and its owner, in any order.                                     *)
(***************************************************************************)
InitXR ==
    /\ xr \in ManagedOutputCanvases
    /\ instance = NoInstance
    /\ call = NoCall
    /\ wIn \in WidthSamples /\ wIn.pointCount = 0
    /\ cIn \in ColorSamples /\ cIn.pointCount = 0
    /\ wOut = NotCalled
    /\ cOut = NotCalled

NextXR ==
    \/ XRSessionInit
    \/ XRSessionEnded
    \/ EngineDispose
    \/ Dispose
    \/ InitializeXRLayerAsync
    \/ MakeXRCompatibleFulfilled
    \/ MakeXRCompatibleRejected
    \/ CreateLayerThen

SpecXR == InitXR /\ [][NextXR]_vars

(***************************************************************************)
(* Properties of the completion functions (checked under SpecTables)       *)
(***************************************************************************)
WidthFillPolicies ==
    { WIDTH_DISTRIBUTION_REPEAT, WIDTH_DISTRIBUTION_EVEN, WIDTH_DISTRIBUTION_START,
      WIDTH_DISTRIBUTION_END, WIDTH_DISTRIBUTION_START_END }

ColorFillPolicies ==
    { COLOR_DISTRIBUTION_REPEAT, COLOR_DISTRIBUTION_EVEN, COLOR_DISTRIBUTION_START,
      COLOR_DISTRIBUTION_END, COLOR_DISTRIBUTION_START_END }

EvenLength(a) == Len(a) % 2 = 0

AllDefined(a) == \A m \in 1..Len(a) : a[m] # Undefined

\* C1: for every pointCount >= 0, every even-length width table and every
\* fill policy (REPEAT, EVEN, START, END, START_END) the returned width table
\* has exactly 2 * pointCount entries.
C1_WidthTableLength ==
    (wOut.called /\ EvenLength(wIn.widths)
        /\ wIn.widthsDistribution \in WidthFillPolicies)
    => Len(wOut.table) = 2 * wIn.pointCount

\* C2: for every pointCount >= 0, every color table and every policy other
\* than NONE the returned color table has exactly pointCount entries.
C2_ColorTableLength ==
    (cOut.called /\ cIn.colorDistribution \in ColorFillPolicies)
    => Len(cOut.table) = cIn.pointCount

\* C5: under the color END policy with missing = pointCount - colors.length > 0
\* the result is exactly `missing` copies of defaultColor followed by all
\* existing entries in their original order.
C5_ColorEndFill ==
    (cOut.called /\ cIn.colorDistribution = COLOR_DISTRIBUTION_END
        /\ cIn.pointCount - Len(cIn.colors) > 0)
    => LET missing == cIn.pointCount - Len(cIn.colors)
       IN  /\ Len(cOut.table) = missing + Len(cIn.colors)
           /\ \A m \in 1..missing : cOut.table[m] = cIn.defaultColor
           /\ \A m \in 1..Len(cIn.colors) : cOut.table[missing + m] = cIn.colors[m]

C7_ColorRepeatCyclic ==
    (cOut.called /\ cIn.colorDistribution = COLOR_DISTRIBUTION_REPEAT
        /\ Len(cIn.colors) > 0 /\ Len(cIn.colors) < cIn.pointCount)
    => /\ Len(cOut.table) = cIn.pointCount
       /\ \A x \in 0..(cIn.pointCount - 1) :
            cOut.table[x + 1] = cIn.colors[(x % Len(cIn.colors)) + 1]

\* C7 witness: [1,2] repeated over 5 points.
C7_Witness ==
    /\ cOut.called
    /\ cIn.colorDistribution = COLOR_DISTRIBUTION_REPEAT
    /\ cIn.pointCount = 5 /\ cIn.colors = <<1, 2>>
    /\ cOut.table = <<1, 2, 1, 2, 1>>

\* C8: for both functions and every policy (NONE included), when the table
\* has at least as many entries as needed (missing <= 0) the result is the
\* prefix of the input of the required length (2 * pointCount widths,
\* pointCount colors); with missing = 0 it is the input entry for entry.
C8_PrefixWhenLongEnough ==
    /\ (wOut.called /\ 2 * wIn.pointCount - Len(wIn.widths) <= 0)
        => /\ Len(wOut.table) = 2 * wIn.pointCount
           /\ \A m \in 1..(2 * wIn.pointCount) : wOut.table[m] = wIn.widths[m]
    /\ (cOut.called /\ cIn.pointCount - Len(cIn.colors) <= 0)
        => /\ Len(cOut.table) = cIn.pointCount
           /\ \A m \in 1..cIn.pointCount : cOut.table[m] = cIn.colors[m]

\* C8 witness: both functions have cut a longer table down to its prefix.
C8_Witness ==
    /\ wOut.called /\ cOut.called
    /\ wIn.pointCount = 2 /\ Len(wIn.widths) = 6 /\ wIn.widths[5] # wIn.widths[1]
    /\ wIn.widthsDistribution = WIDTH_DISTRIBUTION_END
    /\ wOut.table = SubSeq(wIn.widths, 1, 4)
    /\ cIn.pointCount = 1 /\ cIn.colors = <<1, 2>>
    /\ cOut.table = <<1>>

\* C9: with pointCount = 1 and a table shorter than needed under EVEN,
\* neither function evaluates a stride with a zero divisor, and each returns
\* a table of the required length whose entries are all defined.
C9_EvenSinglePointDefined ==
    /\ (wOut.called /\ wIn.pointCount = 1
            /\ wIn.widthsDistribution = WIDTH_DISTRIBUTION_EVEN
            /\ 2 * wIn.pointCount - Len(wIn.widths) > 0)
        => /\ \A m \in 1..Len(wOut.strides) : wOut.strides[m][2] # 0
           /\ Len(wOut.table) = 2
           /\ AllDefined(wOut.table)
    /\ (cOut.called /\ cIn.pointCount = 1
            /\ cIn.colorDistribution = COLOR_DISTRIBUTION_EVEN
            /\ cIn.pointCount - Len(cIn.colors) > 0)
        => /\ \A m \in 1..Len(cOut.strides) : cOut.strides[m][2] # 0
           /\ Len(cOut.table) = 1
           /\ AllDefined(cOut.table)

\* C10: under WIDTH_DISTRIBUTION_START_END with a non-empty even-length table
\* shorter than needed, the output starts with leading pairs of the input,
\* ends with trailing pairs of the input, and every pair in the gap between
\* them is (defaultWidthUpper, defaultWidthLower).
C10_WidthStartEndGapDefault ==
    (wOut.called /\ wIn.widthsDistribution = WIDTH_DISTRIBUTION_START_END
        /\ Len(wIn.widths) > 0 /\ EvenLength(wIn.widths)
        /\ 2 * wIn.pointCount - Len(wIn.widths) > 0)
    => LET len == Len(wIn.widths)
           out == wOut.table
           gap == Len(out) - len
       IN  /\ gap >= 0 /\ gap % 2 = 0
           /\ \E a \in 0..(len \div 2) :
                /\ \A m \in 1..(2 * a) : out[m] = wIn.widths[m]
                /\ \A m \in (2 * a + 1)..len : out[gap + m] = wIn.widths[m]
                /\ \A k \in 1..(gap \div 2) :
                     /\ out[2 * a + 2 * k - 1] = wIn.defaultWidthUpper
                     /\ out[2 * a + 2 * k] = wIn.defaultWidthLower

\* C11: under the NONE policy of either function, a table shorter than needed
\* is returned as it was given: same entries, same order, same length.
C11_NoneReturnsTable ==
    /\ (wOut.called /\ wIn.widthsDistribution = WIDTH_DISTRIBUTION_NONE
            /\ 2 * wIn.pointCount - Len(wIn.widths) > 0)
        => wOut.table = wIn.widths
    /\ (cOut.called /\ cIn.colorDistribution = COLOR_DISTRIBUTION_NONE
            /\ cIn.pointCount - Len(cIn.colors) > 0)
        => cOut.table = cIn.colors

\* C16: under the width EVEN policy with a non-empty even-length table and
\* pointCount >= 2, every emitted pair is an aligned pair of the source,
\* (widths[2k], widths[2k+1]) with 0 <= k < widths.length / 2: the read index
\* is never odd and never at or past widths.length, and it does not decrease
\* from one output slot to the next.
C16_WidthEvenAlignedPairs ==
    (wOut.called /\ wIn.widthsDistribution = WIDTH_DISTRIBUTION_EVEN
        /\ Len(wIn.widths) > 0 /\ EvenLength(wIn.widths) /\ wIn.pointCount >= 2
        /\ 2 * wIn.pointCount - Len(wIn.widths) > 0)
    => /\ Len(wOut.table) = 2 * wIn.pointCount
       /\ \A x \in 0..(wIn.pointCount - 1) :
            LET i == StrideIndex(x, wOut.strides[1])
            IN  /\ i >= 0 /\ i % 2 = 0 /\ i + 1 < Len(wIn.widths)
                /\ wOut.table[2 * x + 1] = At(wIn.widths, i)
                /\ wOut.table[2 * x + 2] = At(wIn.widths, i + 1)
                /\ x > 0 => StrideIndex(x - 1, wOut.strides[1]) <= i

(***************************************************************************)
(* Properties of CreateGreasedLine (checked under Spec).  Every step of    *)
(* Spec is one call: `instance` is the mesh before it, `instance'` the     *)
(* mesh after it and `call'` what the call was given and did.              *)
(***************************************************************************)
\* The number of points of options.points.
RECURSIVE PointCount(_)
PointCount(points) ==
    IF points = <<>> THEN 0 ELSE points[1] + PointCount(Tail(points))

\* The width table completed for the points of one call only.
BatchWidths(args) ==
    CompleteGreasedLineWidthTable(PointCount(args.points),
                                  IF args.widths.defined THEN args.widths.table ELSE <<>>,
                                  WidthDistributionOf(args), 1, 1)

\* The color table completed for the points of one call only.
BatchColors(args) ==
    CompleteGreasedLineColorTable(PointCount(args.points), args.colors.table,
                                  ColorDistributionOf(args), ColorOf(args))

\* C3: in Extend mode on an instance that holds a width table W, the
\* instance's width table afterwards is W followed by the width table
\* completed for the new batch's point count only (every entry of W keeps its
\* position and value, nothing is completed again), and addPoints is called
\* exactly once, with the new points, which end up appended once.
C3_ExtendAppendsWidths ==
    [][(call'.args.instance /\ instance.widths.defined)
        => /\ instance'.widths.defined
           /\ instance'.widths.table
                = instance.widths.table \o BatchWidths(call'.args)
           /\ \A m \in 1..Len(instance.widths.table) :
                instance'.widths.table[m] = instance.widths.table[m]
           /\ call'.addPoints = <<ConvertPoints(call'.args.points)>>
           /\ instance'.points = instance.points \o ConvertPoints(call'.args.points)
      ]_vars

\* C3 witness: a mesh created with one point and widths [1,2] was extended by
\* one point without widths: [1,2] followed by the default pair.
C3_Witness ==
    /\ call.number = 2
    /\ call.args.instance
    /\ call.args.points = <<1>>
    /\ ~call.args.widths.defined
    /\ instance.widths = SomeTable(<<1, 2, 1, 1>>)
    /\ instance.points = <<3, 3>>
    /\ Len(call.addPoints) = 1

\* C4: in Extend mode with a color table supplied, if the instance has a
\* StandardMaterial or PBRMaterial whose plugin holds a color table C, exactly
\* one setColors call is made, with C followed by the colors completed for the
\* new batch only and with the instance's lazy flag; in every other case
\* setColors is not called and the plugin's color table is unchanged.
C4_ExtendMergesColors ==
    [][IF /\ call'.args.instance
          /\ call'.args.colors.defined
          /\ instance.material \in {"StandardMaterial", "PBRMaterial"}
          /\ instance.greasedLineMaterial
          /\ instance.colors.defined
       THEN call'.setColors
                = <<[colors |-> instance.colors.table \o BatchColors(call'.args),
                     lazy |-> instance.lazy]>>
       ELSE /\ call'.setColors = <<>>
            /\ call'.args.instance => instance'.colors = instance.colors
      ]_vars

\* C4 witness: a lazy mesh whose StandardMaterial plugin held the color table
\* [1] was extended with a color table shorter than the new batch.
C4_Witness ==
    /\ call.args.instance
    /\ instance.material = "StandardMaterial"
    /\ instance.lazy
    /\ Len(call.setColors) = 1
    /\ call.setColors[1].lazy
    /\ Len(call.colors.table) > Len(call.args.colors.table)
    /\ call.setColors[1].colors = <<1>> \o call.colors.table
    /\ instance.colors = SomeTable(call.setColors[1].colors)

\* C12: a call creates a new material and assigns it to the mesh if and only
\* if no instance is supplied and createAndAssignMaterial is true or omitted
\* (also when materialOptions is omitted); a call with an instance creates no
\* material and leaves the instance's material as it was, whatever
\* createAndAssignMaterial says.
C12_MaterialCreatedIffNoInstance ==
    [][LET args == call'.args
           wanted == ~args.instance
                        /\ args.createAndAssignMaterial \in {"true", "undefined"}
       IN  /\ call'.materialsCreated = (IF wanted THEN 1 ELSE 0)
           /\ wanted => /\ instance'.material \in {"StandardMaterial", "PBRMaterial"}
                         /\ instance'.greasedLineMaterial
           /\ (~args.instance /\ ~wanted) => /\ instance'.material = "none"
                                             /\ ~instance'.greasedLineMaterial
           /\ args.instance => /\ instance'.material = instance.material
                                /\ instance'.greasedLineMaterial
                                      = instance.greasedLineMaterial
      ]_vars

\* C12 witness: a mesh created with createAndAssignMaterial false was extended
\* with createAndAssignMaterial true and still has no material.
C12_Witness ==
    /\ call.number = 2
    /\ call.args.instance
    /\ call.args.createAndAssignMaterial = "true"
    /\ call.materialsCreated = 0
    /\ instance.widths = SomeTable(<<1, 1, 1, 1>>)
    /\ instance.material = "none"
    /\ ~instance.greasedLineMaterial

\* C15: after one Create call followed by any sequence of Extend calls on the
\* same instance (even-length width tables, possibly omitted; policies START,
\* END, REPEAT, EVEN, START_END) the instance's width table holds 2 entries
\* for each point the instance holds.
C15_WidthsMatchPoints ==
    call.origin \in {"created", "createdWithColors"}
    => /\ instance.widths.defined
       /\ Len(instance.widths.table) = 2 * PointsLength(instance.points)

\* The mesh has a material made by CreateGreasedLine's rules (StandardMaterial
\* or PBRMaterial with the plugin) whose color table has one entry per point.
ColorsMatchPoints(mesh) ==
    /\ mesh.material \in {"StandardMaterial", "PBRMaterial"}
    /\ mesh.greasedLineMaterial
    /\ mesh.colors.defined
    /\ Len(mesh.colors.table) = PointsLength(mesh.points)

\* C17: for a shape created with a color table and a created material
\* (default START distribution), after any sequence of Extend calls, with or
\* without colors, the material's color table has one entry per point the
\* instance holds.
C17_ColorsMatchPointsAlways ==
    call.origin = "createdWithColors" => ColorsMatchPoints(instance)

\* C17 as amended: a shape created with a color table, a created material and
\* the default START distribution has one color per point; an Extend call that
\* supplies a color table under the default START distribution keeps one color
\* per point; an Extend call without a color table adds its points and leaves
\* the material's color table as it was.
C17_ColorsMatchPointsWhenSupplied ==
    [][LET args == call'.args
       IN  /\ call'.origin = "createdWithColors" /\ ~args.instance
                => ColorsMatchPoints(instance')
           /\ (args.instance /\ ColorsMatchPoints(instance) /\ args.colors.defined
                    /\ ColorDistributionOf(args) = COLOR_DISTRIBUTION_START)
                => ColorsMatchPoints(instance')
           /\ (args.instance /\ ~args.colors.defined)
                => /\ instance'.colors = instance.colors
                   /\ PointsLength(instance'.points)
                        = PointsLength(instance.points) + PointCount(args.points)
      ]_vars

\* C17 witness: a shape created with colors was extended by more points than
\* the colors supplied with them, and has one color per point.
C17_Witness ==
    /\ call.origin = "createdWithColors"
    /\ call.args.instance
    /\ call.args.colors.defined
    /\ ColorDistributionOf(call.args) = COLOR_DISTRIBUTION_START
    /\ PointCount(call.args.points) > Len(call.args.colors.table)
    /\ Len(call.setColors) = 1
    /\ PointsLength(instance.points) > PointCount(call.args.points)
    /\ ColorsMatchPoints(instance)

(***************************************************************************)
(* Properties of WebXRManagedOutputCanvas (checked under SpecXR).          *)
(* xr.event names the last event handled.                                  *)
(***************************************************************************)
\* C13: for a managed canvas that is not the engine's rendering canvas, in
\* every order of XR session init, XR session end, engine dispose and
\* dispose(): right after session init the canvas (if the object still
\* manages one) is in document.body, and right after session end or dispose()
\* it is not.
C13_CanvasAttachedInSessionOnly ==
    ~xr.isRenderingCanvas
    => /\ (xr.event = "sessionInit" /\ xr._canvas # "null") => xr.inBody
       /\ xr.event \in {"sessionEnded", "dispose"} => ~xr.inBody

\* The initializeXRLayerAsync call in hand has just ended, one way or another.
LayerCallEnded ==
    /\ xr.promise \in {"resolved", "rejected", "threw"}
    /\ xr.event \in {"initializeXRLayerAsync", "createLayer"}

\* C14: when makeXRCompatible rejects or createFramebuffer returns null during
\* initializeXRLayerAsync, the condition is logged and the call still ends
\* with xrLayer set to a layer it created, never with a thrown error or a
\* rejected promise.
C14_ResourceFailureRecoverable ==
    (LayerCallEnded /\ (xr.compatible = "rejected" \/ xr.framebuffer = "null"))
    => /\ xr.warned
       /\ xr.promise = "resolved"
       /\ xr.created
       /\ xr.xrLayer = "layer"

\* C14 as amended: a rejected makeXRCompatible is logged and the layer is
\* created all the same, so that the call ends with xrLayer set to a layer it
\* created unless createLayer throws (createFramebuffer returned null, or the
\* canvas context is gone); when createFramebuffer returns null the call
\* ends with a thrown error (no makeXRCompatible) or a rejected promise, and
\* without a layer of its own.
C14_RejectionLoggedNullFramebufferThrows ==
    /\ xr.compatible = "rejected" => xr.warned
    /\ (LayerCallEnded /\ xr.compatible = "rejected")
        => IF xr.framebuffer = "null" \/ xr.canvasContext = "null"
           THEN xr.promise = "rejected" /\ ~xr.created
           ELSE xr.promise = "resolved" /\ xr.created /\ xr.xrLayer = "layer"
    /\ (LayerCallEnded /\ xr.framebuffer = "null")
        => /\ xr.promise = (IF xr.hasMakeXRCompatible THEN "rejected" ELSE "threw")
           /\ ~xr.created

\* C14 witness: makeXRCompatible was rejected and createFramebuffer returned
\* null: a warning was logged and the promise is rejected.
C14_Witness ==
    /\ xr.compatible = "rejected"
    /\ xr.framebuffer = "null"
    /\ xr.warned
    /\ xr.promise = "rejected"
    /\ xr.event = "createLayer"
    /\ xr.xrLayer = "null"

====
